---- MODULE Spec2Model ----
(***************************************************************************)
(* Model of the enhancement core of src/app.py: the ImageEnhancer object   *)
(* (its lazily loaded backends, load_models, enhance_image and the         *)
(* classical fallback pipeline) together with the arguments main() feeds   *)
(* it.  One ImageEnhancer object is followed from construction on.         *)
(*                                                                         *)
(* The pixel content of an array is kept exactly wherever the code         *)
(* computes it itself (np.array, channel swaps, the /255 normalisation);   *)
(* the content produced by an external filter or network is left abstract  *)
(* (field px empty, field by naming the producer) while its shape,         *)
(* channel order and sample type are computed.                             *)
(*                                                                         *)
(* Input images are 8-bit RGB (H x W x 3) or 8-bit grayscale (H x W), or   *)
(* an upload whose pixel data cannot be decoded.                           *)
(***************************************************************************)
EXTENDS Integers, Sequences, FiniteSets, TLC

VARIABLES files, gfpgan_model, upsampler, models_loaded,
          image, enhancement_type, strength,
          calls, load_attempts, outcome

vars == <<files, gfpgan_model, upsampler, models_loaded,
          image, enhancement_type, strength,
          calls, load_attempts, outcome>>

backend == <<gfpgan_model, upsampler, models_loaded>>

----------------------------------------------------------------------------
(* Bounds *)

\* largest height and width of an uploaded image
MaxDim == 2

\* largest number of enhance_image calls followed on the enhancer
MaxCalls == 3

----------------------------------------------------------------------------
(* Program constants *)

None == "None"

MODEL_PATHS == {"GFPGAN", "RealESRGAN"}

\* upscale=2 given to GFPGANer
GFPGAN_UPSCALE == 2

\* scale=4 given to RealESRGANer, outscale=4 given to its enhance
SR_SCALE == 4

\* factor of the bicubic fallback resize
FALLBACK_SCALE == 2

MinStrength == 1
MaxStrength == 10
DefaultStrength == 7

SupportedTypes ==
    {"Face Enhancement", "Super Resolution", "Denoise", "Sharpen",
     "Remove Background", "Color Correction"}

\* an operation name outside the six the dispatcher knows
UnknownType == "Vintage"

EnhancementTypes == SupportedTypes \cup {UnknownType}

\* what the environment holds at the path of a weight file: nothing, a file
\* the backend's constructor raises on, or a file it loads
FileStates == {"missing", "unloadable", "ok"}

----------------------------------------------------------------------------
(* Rationals <<numerator, denominator>> with positive denominator, for the *)
(* blend weight                                                            *)

RatAdd(a, b) == <<a[1] * b[2] + b[1] * a[2], a[2] * b[2]>>
RatLeq(a, b) == a[1] * b[2] <= b[1] * a[2]
RatEq(a, b) == a[1] * b[2] = b[1] * a[2]
RatMin(a, b) == IF RatLeq(a, b) THEN a ELSE b

NoWeight == <<0, 1>>

Weight_uncapped(s) == RatAdd(<<5, 10>>, <<s, 20>>)

\* weight=min(0.5 + strength/20, 0.9)
Weight(s) == RatMin(RatAdd(<<5, 10>>, <<s, 20>>), <<9, 10>>)

----------------------------------------------------------------------------
(* Images and arrays *)

Palette == << <<200, 100, 0>>, <<0, 50, 255>> >>
Grays == << <<10>>, <<240>> >>

PixelsOf(table, n) == [i \in 1..n |-> table[((i - 1) % Len(table)) + 1]]

NoImage == [mode |-> "none", w |-> 0, h |-> 0, decodable |-> FALSE, px |-> <<>>]

\* an upload whose header opens but whose pixel data does not decode
CorruptImage == [mode |-> "RGB", w |-> 1, h |-> 1, decodable |-> FALSE, px |-> <<>>]

RGBImage(h, w) ==
    [mode |-> "RGB", w |-> w, h |-> h, decodable |-> TRUE,
     px |-> PixelsOf(Palette, h * w)]

GrayImage(h, w) ==
    [mode |-> "L", w |-> w, h |-> h, decodable |-> TRUE,
     px |-> PixelsOf(Grays, h * w)]

Images ==
    {RGBImage(h, w) : h \in 1..MaxDim, w \in 1..MaxDim}
    \cup {GrayImage(h, w) : h \in 1..MaxDim, w \in 1..MaxDim}
    \cup {CorruptImage}

NoArray ==
    [h |-> 0, w |-> 0, ch |-> 0, order |-> "none", dtype |-> "none",
     den |-> 1, by |-> "none", px |-> <<>>]

\* np.array(image): shape (h, w, 3) for RGB, (h, w) for L; samples uint8
np_array(img) ==
    [h |-> img.h, w |-> img.w,
     ch |-> IF img.mode = "L" THEN 0 ELSE 3,
     order |-> img.mode, dtype |-> "uint8", den |-> 1,
     by |-> "input", px |-> img.px]

\* an array whose content an external routine produced
Produced(h, w, ch, order, by) ==
    [h |-> h, w |-> w, ch |-> ch, order |-> order, dtype |-> "uint8",
     den |-> 1, by |-> by, px |-> <<>>]

Reverse3(p) == <<p[3], p[2], p[1]>>

\* cv2.cvtColor accepts 3 or 4 channels for the conversions used here
cvtColorOK(a) == a.ch \in {3, 4}

\* cv2.cvtColor(a, RGB2BGR) and (a, BGR2RGB): swap first and third sample
cvtColor_swap(a) ==
    [a EXCEPT !.ch = 3,
              !.order = IF a.order = "BGR" THEN "RGB" ELSE "BGR",
              !.px = [i \in 1..Len(a.px) |-> Reverse3(a.px[i])]]

\* a.astype(np.float32) / 255.0
normalize(a) == [a EXCEPT !.dtype = "float32", !.den = a.den * 255]

\* cv2.resize(a, (width, height), INTER_CUBIC): dsize is (width, height)
resize(a, width, height) ==
    [a EXCEPT !.h = height, !.w = width, !.by = "INTER_CUBIC", !.px = <<>>]

\* cv2.filter2D(a, -1, kernel): same shape and depth
filter2D(a) == [a EXCEPT !.by = "filter2D", !.px = <<>>]

\* cv2.bilateralFilter(a, 9, 75, 75): same shape
bilateralFilter(a) == [a EXCEPT !.by = "bilateralFilter", !.px = <<>>]

\* RGB2LAB, split, CLAHE on l, merge, LAB2RGB: 3-channel RGB of the same size
clahe_lab(a) == Produced(a.h, a.w, 3, "RGB", "CLAHE")

----------------------------------------------------------------------------
(* ImageEnhancer.load_models *)

Self == [gfpgan_model |-> gfpgan_model, upsampler |-> upsampler,
         models_loaded |-> models_loaded]

Loaded(self, gf, up, ml, attempted, error) ==
    [gfpgan_model |-> gf, upsampler |-> up, models_loaded |-> ml,
     attempted |-> attempted, error |-> error]

\* variant: the early return on models_loaded is missing
load_models_no_guard(self, fs) ==
    IF \E m \in MODEL_PATHS : fs[m] = "missing"
    THEN Loaded(self, self.gfpgan_model, self.upsampler, self.models_loaded, TRUE, TRUE)
    ELSE IF fs["GFPGAN"] # "ok"
    THEN Loaded(self, self.gfpgan_model, self.upsampler, self.models_loaded, TRUE, TRUE)
    ELSE IF fs["RealESRGAN"] # "ok"
    THEN Loaded(self, "GFPGANer", self.upsampler, self.models_loaded, TRUE, TRUE)
    ELSE Loaded(self, "GFPGANer", "RealESRGANer", TRUE, TRUE, FALSE)

\* variant: each backend is loaded on its own, whatever happens to the other
load_models_independent(self, fs) ==
    IF self.models_loaded
    THEN Loaded(self, self.gfpgan_model, self.upsampler, TRUE, FALSE, FALSE)
    ELSE LET gf == IF fs["GFPGAN"] = "ok" THEN "GFPGANer" ELSE self.gfpgan_model
             up == IF fs["RealESRGAN"] = "ok" THEN "RealESRGANer" ELSE self.upsampler
             all == fs["GFPGAN"] = "ok" /\ fs["RealESRGAN"] = "ok"
         IN  Loaded(self, gf, up, all, TRUE, ~all)

\* variant: a new attempt first drops the backends of the previous one
load_models_reset(self, fs) ==
    IF self.models_loaded
    THEN Loaded(self, self.gfpgan_model, self.upsampler, TRUE, FALSE, FALSE)
    ELSE IF \E m \in MODEL_PATHS : fs[m] = "missing"
    THEN Loaded(self, None, None, FALSE, TRUE, TRUE)
    ELSE IF fs["GFPGAN"] # "ok"
    THEN Loaded(self, None, None, FALSE, TRUE, TRUE)
    ELSE IF fs["RealESRGAN"] # "ok"
    THEN Loaded(self, "GFPGANer", None, FALSE, TRUE, TRUE)
    ELSE Loaded(self, "GFPGANer", "RealESRGANer", TRUE, TRUE, FALSE)

\* variant: models_loaded is set before the super-resolution backend is built
load_models_flag_early(self, fs) ==
    IF self.models_loaded
    THEN Loaded(self, self.gfpgan_model, self.upsampler, TRUE, FALSE, FALSE)
    ELSE IF \E m \in MODEL_PATHS : fs[m] = "missing"
    THEN Loaded(self, self.gfpgan_model, self.upsampler, FALSE, TRUE, TRUE)
    ELSE IF fs["GFPGAN"] # "ok"
    THEN Loaded(self, self.gfpgan_model, self.upsampler, FALSE, TRUE, TRUE)
    ELSE IF fs["RealESRGAN"] # "ok"
    THEN Loaded(self, "GFPGANer", self.upsampler, TRUE, TRUE, TRUE)
    ELSE Loaded(self, "GFPGANer", "RealESRGANer", TRUE, TRUE, FALSE)

\* load_models: return at once when models_loaded; else, inside one try,
\* check that every weight file exists, build GFPGANer, build RealESRGANer,
\* set models_loaded.  The first step that raises ends the attempt and keeps
\* what was assigned before it.
load_models(self, fs) ==
    IF self.models_loaded
    THEN Loaded(self, self.gfpgan_model, self.upsampler, TRUE, FALSE, FALSE)
    ELSE IF \E m \in MODEL_PATHS : fs[m] = "missing"
    THEN Loaded(self, self.gfpgan_model, self.upsampler, FALSE, TRUE, TRUE)
    ELSE IF fs["GFPGAN"] # "ok"
    THEN Loaded(self, self.gfpgan_model, self.upsampler, FALSE, TRUE, TRUE)
    ELSE IF fs["RealESRGAN"] # "ok"
    THEN Loaded(self, "GFPGANer", self.upsampler, FALSE, TRUE, TRUE)
    ELSE Loaded(self, "GFPGANer", "RealESRGANer", TRUE, TRUE, FALSE)

----------------------------------------------------------------------------
(* The transforms of enhance_image.  Each yields the value the try block   *)
(* ends with: the output it returns, or, when a step raises, the value     *)
(* the local img_array holds at that moment.                               *)

Ok(output, weight) == [raised |-> FALSE, value |-> output, weight |-> weight]
Fail(img_array, weight) == [raised |-> TRUE, value |-> img_array, weight |-> weight]

\* self.upsampler.enhance(a, outscale=4): 3-channel BGR, 4x the size
upsampler_enhance(a) ==
    Produced(a.h * SR_SCALE, a.w * SR_SCALE, 3, "BGR", "RealESRGAN")

\* self.gfpgan_model.enhance(a, paste_back=True): the restored image is the
\* 3-channel BGR input upscaled by the factor given to GFPGANer
gfpgan_enhance(a) ==
    Produced(a.h * GFPGAN_UPSCALE, a.w * GFPGAN_UPSCALE, 3, "BGR", "GFPGAN")

\* variant: width and height are swapped in the fallback resize
SuperResolution_swapped(a, up, backend_ok) ==
    IF up # None
    THEN IF ~cvtColorOK(a) THEN Fail(a, NoWeight)
         ELSE LET bgr == cvtColor_swap(a)
                  img_array == normalize(bgr)
              IN  IF ~backend_ok THEN Fail(img_array, NoWeight)
                  ELSE Ok(cvtColor_swap(upsampler_enhance(img_array)), NoWeight)
    ELSE Ok(resize(a, a.h * FALLBACK_SCALE, a.w * FALLBACK_SCALE), NoWeight)

\* "Super Resolution"
SuperResolution(a, up, backend_ok) ==
    IF up # None
    THEN IF ~cvtColorOK(a) THEN Fail(a, NoWeight)
         ELSE LET bgr == cvtColor_swap(a)
                  img_array == normalize(bgr)
              IN  IF ~backend_ok THEN Fail(img_array, NoWeight)
                  ELSE Ok(cvtColor_swap(upsampler_enhance(img_array)), NoWeight)
    ELSE Ok(resize(a, a.w * FALLBACK_SCALE, a.h * FALLBACK_SCALE), NoWeight)

\* _advanced_face_enhancement: CLAHE on luminance, sharpen, bilateral filter
advanced_face_enhancement(a) ==
    IF ~cvtColorOK(a) THEN Fail(a, NoWeight)
    ELSE Ok(bilateralFilter(filter2D(clahe_lab(a))), NoWeight)

\* variant: the fallback pipeline is run at the neural backend's scale
FaceEnhancement_upscaled(a, gf, s, backend_ok) ==
    IF gf # None
    THEN IF ~cvtColorOK(a) THEN Fail(a, NoWeight)
         ELSE LET img_array == cvtColor_swap(a)
              IN  IF ~backend_ok THEN Fail(img_array, Weight(s))
                  ELSE Ok(cvtColor_swap(gfpgan_enhance(img_array)), Weight(s))
    ELSE advanced_face_enhancement(
             resize(a, a.w * GFPGAN_UPSCALE, a.h * GFPGAN_UPSCALE))

\* "Face Enhancement"
FaceEnhancement(a, gf, s, backend_ok) ==
    IF gf # None
    THEN IF ~cvtColorOK(a) THEN Fail(a, NoWeight)
         ELSE LET img_array == cvtColor_swap(a)
              IN  IF ~backend_ok THEN Fail(img_array, Weight(s))
                  ELSE Ok(cvtColor_swap(gfpgan_enhance(img_array)), Weight(s))
    ELSE advanced_face_enhancement(a)

\* "Denoise": cv2.fastNlMeansDenoisingColored wants 3 or 4 channels
Denoise(a, s) ==
    IF a.ch \notin {3, 4} THEN Fail(a, NoWeight)
    ELSE Ok([a EXCEPT !.by = "fastNlMeans", !.px = <<>>], NoWeight)

\* "Sharpen"
Sharpen(a) == Ok(filter2D(a), NoWeight)

\* "Remove Background": rembg.remove gives RGBA of the same size
RemoveBackground(a, backend_ok) ==
    IF ~backend_ok THEN Fail(a, NoWeight)
    ELSE Ok(Produced(a.h, a.w, 4, "RGBA", "rembg"), NoWeight)

\* "Color Correction"
ColorCorrection(a) ==
    IF ~cvtColorOK(a) THEN Fail(a, NoWeight)
    ELSE Ok(clahe_lab(a), NoWeight)

\* variant: a name the dispatcher does not know is treated as "Sharpen"
Transform_default_sharpen(a, t, s, gf, up, backend_ok) ==
    CASE t = "Super Resolution" -> SuperResolution(a, up, backend_ok)
      [] t = "Face Enhancement" -> FaceEnhancement(a, gf, s, backend_ok)
      [] t = "Denoise" -> Denoise(a, s)
      [] t = "Remove Background" -> RemoveBackground(a, backend_ok)
      [] t = "Color Correction" -> ColorCorrection(a)
      [] OTHER -> Sharpen(a)

\* the if / elif chain inside the try block
Transform(a, t, s, gf, up, backend_ok) ==
    CASE t = "Super Resolution" -> SuperResolution(a, up, backend_ok)
      [] t = "Face Enhancement" -> FaceEnhancement(a, gf, s, backend_ok)
      [] t = "Denoise" -> Denoise(a, s)
      [] t = "Sharpen" -> Sharpen(a)
      [] t = "Remove Background" -> RemoveBackground(a, backend_ok)
      [] t = "Color Correction" -> ColorCorrection(a)
      [] OTHER -> Ok(a, NoWeight)

----------------------------------------------------------------------------
(* State machine *)

LoadError == "Model loading failed"
EnhanceError == "Enhancement failed"

NoOutcome == [kind |-> "none", img |-> NoArray, errors |-> {}, weight |-> NoWeight]

Init ==
    /\ files \in [MODEL_PATHS -> FileStates]
    /\ gfpgan_model = None
    /\ upsampler = None
    /\ models_loaded = FALSE
    /\ image = NoImage
    /\ enhancement_type = "Face Enhancement"
    /\ strength = DefaultStrength
    /\ calls = 0
    /\ load_attempts = 0
    /\ outcome = NoOutcome

\* the environment puts, removes or replaces a weight file
WeightFileChange(m, fstate) ==
    /\ files[m] # fstate
    /\ files' = [files EXCEPT ![m] = fstate]
    /\ outcome' = NoOutcome
    /\ UNCHANGED <<gfpgan_model, upsampler, models_loaded, image,
                   enhancement_type, strength, calls, load_attempts>>

\* the caller picks the image of the next call
Upload(img) ==
    /\ image # img
    /\ image' = img
    /\ outcome' = NoOutcome
    /\ UNCHANGED <<files, gfpgan_model, upsampler, models_loaded,
                   enhancement_type, strength, calls, load_attempts>>

\* the caller picks the operation of the next call
SelectType(t) ==
    /\ enhancement_type # t
    /\ enhancement_type' = t
    /\ outcome' = NoOutcome
    /\ UNCHANGED <<files, gfpgan_model, upsampler, models_loaded,
                   image, strength, calls, load_attempts>>

\* the caller picks the strength of the next call
SetStrength(s) ==
    /\ strength # s
    /\ strength' = s
    /\ outcome' = NoOutcome
    /\ UNCHANGED <<files, gfpgan_model, upsampler, models_loaded,
                   image, enhancement_type, calls, load_attempts>>

\* enhancer.enhance_image(image, enhancement_type, strength); backend_ok says
\* whether the external inference call of this request returns or raises
enhance_image(backend_ok) ==
    /\ image # NoImage
    /\ calls < MaxCalls
    /\ LET lm == load_models(Self, files)
           loadErrs == IF lm.error THEN {LoadError} ELSE {}
       IN  /\ gfpgan_model' = lm.gfpgan_model
           /\ upsampler' = lm.upsampler
           /\ models_loaded' = lm.models_loaded
           /\ load_attempts' = IF lm.attempted THEN load_attempts + 1 ELSE load_attempts
           /\ IF ~image.decodable
              THEN outcome' = [kind |-> "raised", img |-> NoArray,
                               errors |-> loadErrs, weight |-> NoWeight]
              ELSE LET r == Transform(np_array(image), enhancement_type, strength,
                                      lm.gfpgan_model, lm.upsampler, backend_ok)
                   IN  outcome' = [kind |-> "returned", img |-> r.value,
                                   errors |-> loadErrs \cup
                                       (IF r.raised THEN {EnhanceError} ELSE {}),
                                   weight |-> r.weight]
    /\ calls' = calls + 1
    /\ UNCHANGED <<files, image, enhancement_type, strength>>

Next ==
    \/ \E m \in MODEL_PATHS, fstate \in FileStates : WeightFileChange(m, fstate)
    \/ \E img \in Images : Upload(img)
    \/ \E t \in EnhancementTypes : SelectType(t)
    \/ \E s \in MinStrength..MaxStrength : SetStrength(s)
    \/ \E backend_ok \in BOOLEAN : enhance_image(backend_ok)

Spec == Init /\ [][Next]_vars

----------------------------------------------------------------------------
(* Properties.  A state with outcome.kind # "none" is the state right      *)
(* after a call of enhance_image on the current image, enhancement_type    *)
(* and strength; the backends it shows are those the dispatcher consulted. *)

Returned == outcome.kind = "returned"
TransformFailed == EnhanceError \in outcome.errors
Handle(m) == IF m = "GFPGAN" THEN gfpgan_model ELSE upsampler
CallStep == calls' = calls + 1
LoadStep == load_attempts' = load_attempts + 1

\* C1: whenever a step of the transform fails, the value returned is the
\* original input array exactly as received (same pixels, same channel
\* order, same 8-bit sample type).
C1_FailureReturnsOriginal ==
    (Returned /\ TransformFailed) => outcome.img = np_array(image)

\* C2: enhance_image never propagates an exception; every call ends by
\* returning an image.
C2_NeverRaises == outcome.kind # "raised"

C5_BackendMonotone ==
    /\ (gfpgan_model = None /\ upsampler = None /\ ~models_loaded)
    /\ [][/\ gfpgan_model # None => gfpgan_model' # None
          /\ upsampler # None => upsampler' # None
          /\ models_loaded => models_loaded']_vars

C5_Witness ==
    /\ calls >= 2 /\ load_attempts >= 2
    /\ gfpgan_model # None /\ upsampler = None
    /\ files["GFPGAN"] = "missing"

\* C6 as stated: every Super Resolution request on an H x W image returns
\* exactly 4H x 4W when the upsampler is loaded and 2H x 2W when it is not.
C6_SuperResolutionScale ==
    (Returned /\ enhancement_type = "Super Resolution") =>
        IF upsampler # None
        THEN outcome.img.h = 4 * image.h /\ outcome.img.w = 4 * image.w
        ELSE outcome.img.h = 2 * image.h /\ outcome.img.w = 2 * image.w

\* C6 amended: a Super Resolution request whose transform does not fail
\* returns exactly 4H x 4W when the upsampler is loaded and 2H x 2W when it
\* is not; one whose transform fails returns an H x W array.
C6_SuperResolutionScaleUnlessFailed ==
    (Returned /\ enhancement_type = "Super Resolution") =>
        IF TransformFailed
        THEN outcome.img.h = image.h /\ outcome.img.w = image.w
        ELSE IF upsampler # None
        THEN outcome.img.h = 4 * image.h /\ outcome.img.w = 4 * image.w
        ELSE outcome.img.h = 2 * image.h /\ outcome.img.w = 2 * image.w

C6_Witness ==
    /\ Returned /\ enhancement_type = "Super Resolution"
    /\ upsampler = None /\ ~TransformFailed
    /\ image.h = 1 /\ image.w = 2
    /\ outcome.img.h = 2 /\ outcome.img.w = 4

\* C7 as stated: Face Enhancement (neural and fallback), Denoise, Sharpen
\* and Color Correction return an array with the height, width and channel
\* count of the input.
C7_ShapePreserved ==
    (Returned /\ enhancement_type \in
        {"Face Enhancement", "Denoise", "Sharpen", "Color Correction"}) =>
        /\ outcome.img.h = image.h
        /\ outcome.img.w = image.w
        /\ outcome.img.ch = np_array(image).ch

\* C7 amended: for an 8-bit RGB or grayscale input, Denoise, Sharpen, Color
\* Correction, Face Enhancement on the fallback path and any of them whose
\* transform fails return an array with the height, width and channel count
\* of the input; Face Enhancement on the neural path, when the backend call
\* succeeds, returns 2H x 2W with the channel count of the input.
C7_ShapePreservedOrUpscaled ==
    (Returned /\ enhancement_type \in
        {"Face Enhancement", "Denoise", "Sharpen", "Color Correction"}) =>
        LET k == IF /\ enhancement_type = "Face Enhancement"
                    /\ gfpgan_model # None
                    /\ ~TransformFailed
                 THEN GFPGAN_UPSCALE ELSE 1
        IN  /\ outcome.img.h = k * image.h
            /\ outcome.img.w = k * image.w
            /\ outcome.img.ch = np_array(image).ch

C7_Witness ==
    /\ Returned /\ enhancement_type = "Face Enhancement"
    /\ gfpgan_model # None /\ ~TransformFailed
    /\ image.h = 2 /\ image.w = 1
    /\ outcome.img.h = 4 /\ outcome.img.w = 2 /\ outcome.img.ch = 3

\* C8: the blend weight passed to the neural face backend is non-decreasing
\* in strength over 1..10, lies in [0.5, 0.9], is 0.55 at strength 1 and
\* 0.9 at strength 10.
C8_BlendWeight ==
    (Returned /\ enhancement_type = "Face Enhancement"
        /\ gfpgan_model # None /\ image.mode = "RGB") =>
        LET wt == outcome.weight
        IN  /\ wt # NoWeight
            /\ RatLeq(<<5, 10>>, wt) /\ RatLeq(wt, <<9, 10>>)
            /\ strength = 1 => RatEq(wt, <<55, 100>>)
            /\ strength = 10 => RatEq(wt, <<9, 10>>)
            /\ \A s \in MinStrength..MaxStrength :
                  /\ s <= strength => RatLeq(Weight(s), wt)
                  /\ s >= strength => RatLeq(wt, Weight(s))

C8_Witness ==
    /\ Returned /\ enhancement_type = "Face Enhancement"
    /\ gfpgan_model # None /\ strength = 10
    /\ RatEq(outcome.weight, <<9, 10>>)

C10_LoadedImpliesBoth ==
    models_loaded => (gfpgan_model # None /\ upsampler # None)

C10_Witness == models_loaded /\ load_attempts >= 2 /\ calls >= 2

====
